---------------------------- MODULE Spec2Model ----------------------------
(***************************************************************************)
(* State-machine model of the slab allocator of src/src/slab.hpp           *)
(* (class slab::SlabAllocator, lines 32-423).                              *)
(*                                                                         *)
(* The raw memory source (_malloc/_free) is a heap of MaxBlocks block      *)
(* addresses; a block is the record of its header fields and of the unit   *)
(* headers SlabBlock::construct wrote.  The operators name a unit by the   *)
(* pair the code recovers from a payload pointer: the unit header's index  *)
(* (SlabUnit::getUnitFromPayload, unit->index) and the block               *)
(* (SlabBlock::getBlockFromUnit).  In the layout specification the caller  *)
(* holds byte addresses and the recovery is computed from them.            *)
(*                                                                         *)
(* uint32_t counters are stored as their 32-bit two's complement reading   *)
(* (2^32 - 1 is stored as -1), so ++ and -- are +1 and -1 and unsigned     *)
(* comparison is UGt below.                                                *)
(***************************************************************************)
EXTENDS Integers, FiniteSets, Sequences, TLC

VARIABLES
    alloc,        \* allocator id -> fields of the SlabAllocator object
    heap,         \* block address -> SlabBlock header and unit headers (live or freed)
    outstanding,  \* allocator id -> payload pointers lent to the caller
    last,         \* the call that produced this state: op, allocator, result, diagnostic, and
                  \* the pointer returned by allocate or passed by a caller that held it
    status,       \* "running", "aborted" (failed assert), "crashed" (null dereference),
                  \* "corrupted" (the raw memory source was handed a freed block),
                  \* "destroyed" (the destructor of the allocator has run),
                  \* "exited" (exit(1) in makeBlock of the two-list variant)
    ndebug        \* build flag: TRUE when assert() is compiled out

vars == <<alloc, heap, outstanding, last, status, ndebug>>

---------------------------------------------------------------------------
\* Bounds of the model.

\* Units per block: 64 in the source (one bit of the uint64_t bitMap each),
\* scaled down so that the bitmaps can be enumerated.
UnitsPerBlock == 2

\* Number of block-sized regions the raw memory source can hand out at once.
MaxBlocks == 2

\* How far below zero reserved_count may wrap before the model stops exploring.
MaxUnderflow == 2

\* Number of block-sized regions of the raw memory source in the runs that only
\* allocate and deallocate (the traffic of main.cpp).
ChurnBlocks == 3

\* Number of pointers the caller's loop holds at most (MAX_ALLOCATIONS of
\* main.cpp, 100000 there).
MaxAllocations == 6

\* units the nearly-full workload lets be free at one time
MaxHoles == 2

---------------------------------------------------------------------------
\* Program constants.

NULL == 0

traverse_threshold == 4

\* OFFSET_OF(SlabBlock, payload): allocator, next, prev and bitMap, 8 bytes each
baseOffset == 32

\* OFFSET_OF(SlabUnit, payload) = sizeof(SlabUnit): index and offset, 4 bytes each
sizeofSlabUnit == 8

\* the unit size of the runs that do not vary it (the first of main.cpp's sizes)
fixed_size == 8

\* the unit sizes the layout runs construct an allocator with: none, one that
\* is rounded up to eight, and one above eight that is rounded up
UnitSizes == {0, 1, 12}

\* blocks of the raw memory source in the nearly-full workload: the fewest
\* with which a scan from the head takes more than traverse_threshold steps
DeepBlocks == traverse_threshold + 2

Addrs == 1..MaxBlocks
Slots == 0..(UnitsPerBlock - 1)
FullMap == {}
EmptyMap == Slots

AllocIds == {1, 2}

\* the reserved_limit arguments the constructor is called with (0 is raised to 1)
ReservedLimits == {0, 1, 2}

NullPtr == [blk |-> NULL, index |-> 0]

\* unsigned a > b on the two's complement readings of two uint32_t values
UGt(a, b) == IF (a < 0) = (b < 0) THEN a > b ELSE a < 0

---------------------------------------------------------------------------
\* bits.hpp primitives on the bitMap, a set of slot indices whose bit is 1.

get(bitMap, index) == IF index \in bitMap THEN 1 ELSE 0

set_zero(bitMap, index) == bitMap \ {index}

set_one(bitMap, index) == bitMap \cup {index}

ctz64(bitMap) == CHOOSE i \in bitMap : \A j \in bitMap : i <= j

popcnt64(bitMap) == Cardinality(bitMap)

---------------------------------------------------------------------------
\* SlabBlock

isFull_OneLeft(bitMap) == popcnt64(bitMap) <= 1

isFull(bitMap) == bitMap = FullMap

isEmpty_OneUsed(bitMap) == popcnt64(bitMap) >= UnitsPerBlock - 1

isEmpty(bitMap) == bitMap = EmptyMap

isUnitAllocated(bitMap, index) == get(bitMap, index) = 0

\* The contents of a freed block are indeterminate; one canonical record stands
\* for them, and every read of a freed block is a nondeterministic choice.
FreedBlock ==
    [live |-> FALSE, allocator |-> 0, next |-> NULL, prev |-> NULL, bitMap |-> {}, units |-> <<>>]

\* SlabUnit::construct: the header written at an offset of the block
SlabUnitConstruct(index, offset) == [index |-> index, offset |-> offset]

\* the offsets from the block at which the loop of construct writes a header
UnitOffsets(unitMetaSize) == {baseOffset + i * unitMetaSize : i \in Slots}

\* units maps each offset at which construct wrote a unit header to that header
construct(allocator, unitMetaSize) ==
    [live |-> TRUE, allocator |-> allocator, next |-> NULL, prev |-> NULL, bitMap |-> EmptyMap,
     units |-> [currentOffset \in UnitOffsets(unitMetaSize) |->
                  SlabUnitConstruct(CHOOSE i \in Slots : baseOffset + i * unitMetaSize = currentOffset,
                                    currentOffset)]]

allocateUnit_Highest(bitMap) ==
    LET index == CHOOSE i \in bitMap : \A j \in bitMap : j <= i
    IN  [index |-> index, bitMap |-> set_zero(bitMap, index)]

allocateUnit_NoClear(bitMap) == [index |-> ctz64(bitMap), bitMap |-> bitMap]

\* the unit index handed out and the bitmap afterwards
allocateUnit(bitMap) ==
    LET index == ctz64(bitMap)
    IN  [index |-> index, bitMap |-> set_zero(bitMap, index)]

deallocateUnit_Low(bitMap, index) == set_one(bitMap, 0)

deallocateUnit(bitMap, index) == set_one(bitMap, index)

destroy(h, slab) == [h EXCEPT ![slab] = FreedBlock]

\* The address _malloc returns: NULL, or a region not in use.  Addresses carry
\* no meaning for the allocator, so the lowest unused one stands for any.
FreeAddrs(h) == {a \in DOMAIN h : ~h[a].live}

MallocResults(h) ==
    {NULL} \cup (IF FreeAddrs(h) = {} THEN {}
                 ELSE {CHOOSE a \in FreeAddrs(h) : \A b \in FreeAddrs(h) : a <= b})

---------------------------------------------------------------------------
\* SlabAllocator: every operation is an operator from the allocator object A
\* (of identity me) and the heap h to the object, the heap, the value returned,
\* the diagnostic written to std::cerr and the status of the process.

Result(A, h, ret, diag, st) == [alloc |-> A, heap |-> h, ret |-> ret, diag |-> diag, status |-> st]

\* SlabAllocator(unitSize, reserved_limit), with _malloc returning addr
Max(a, b) == IF a >= b THEN a ELSE b

\* unitSize = (unitSize + 7) & ~7; for unitSize <= unit_max_size, which the
\* constructor asserts, no uint32_t here or in a unit header wraps
AlignTo8(unitSize) == (unitSize + 7) - ((unitSize + 7) % 8)

Constructor(addr, unitSize, reserved_limit) ==
    [head |-> addr, cache |-> addr, unitMetaSize |-> sizeofSlabUnit + AlignTo8(unitSize),
     total_count |-> 1, reserved_count |-> 1, reserved_limit |-> Max(reserved_limit, 1)]

\* assert(count > 0 && "Invalid ... count.") on a uint32_t fails exactly at 0
AssertPositive(count) == count # 0

RECURSIVE ScanNotFull_Last(_, _, _)
ScanNotFull_Last(h, current, traverseCount) ==
    LET rest == IF h[current].next = NULL
                THEN [slab |-> NULL, traverseCount |-> traverseCount]
                ELSE ScanNotFull_Last(h, h[current].next, traverseCount + 1)
    IN  IF rest.slab = NULL /\ ~isFull(h[current].bitMap)
        THEN [slab |-> current, traverseCount |-> traverseCount]
        ELSE rest

\* the while loop of allocate(): the first non-full block from current and the
\* number of steps taken, or NULL when the last block is full too
RECURSIVE ScanNotFull(_, _, _)
ScanNotFull(h, current, traverseCount) ==
    IF isFull(h[current].bitMap)
    THEN IF h[current].next = NULL
         THEN [slab |-> NULL, traverseCount |-> traverseCount]
         ELSE ScanNotFull(h, h[current].next, traverseCount + 1)
    ELSE [slab |-> current, traverseCount |-> traverseCount]

InsertAtHead_Detached(h, me, head, newSlab, unitMetaSize) ==
    [h EXCEPT ![newSlab] = construct(me, unitMetaSize)]

\* newSlab->next = head; head->prev = newSlab  (newSlab freshly constructed)
InsertAtHead(h, me, head, newSlab, unitMetaSize) ==
    LET h1 == [h EXCEPT ![newSlab] = [construct(me, unitMetaSize) EXCEPT !.next = head]]
    IN  IF head # NULL THEN [h1 EXCEPT ![head].prev = newSlab] ELSE h1


MoveToFront_Stay(h, head, current) == h

\* "float forward": unlink current and re-insert it before head
MoveToFront(h, head, current) ==
    LET p == h[current].prev
        n == h[current].next
        h1 == [h EXCEPT ![p].next = n]
        h2 == IF n # NULL THEN [h1 EXCEPT ![n].prev = p] ELSE h1
        h3 == [h2 EXCEPT ![current].next = head, ![current].prev = NULL]
    IN  [h3 EXCEPT ![head].prev = current]

\* slab->allocateUnit(unitMetaSize)->payload, after the reserved_count
\* bookkeeping that precedes it on both paths of allocate()
ServeFrom(A, h, slab, ndbg) ==
    LET wasEmpty == isEmpty(h[slab].bitMap)
        u == allocateUnit(h[slab].bitMap)
        A1 == IF wasEmpty THEN [A EXCEPT !.reserved_count = @ - 1] ELSE A
    IN  IF wasEmpty /\ ~AssertPositive(A.reserved_count) /\ ~ndbg
        THEN Result(A, h, NullPtr, "assert: Invalid reserved count.", "aborted")
        ELSE Result(A1, [h EXCEPT ![slab].bitMap = u.bitMap],
                    [blk |-> slab, index |-> u.index], "", "running")

allocate_NoMemory_Counted(A, h) ==
    Result([A EXCEPT !.total_count = @ + 1], h, NullPtr,
           "allocate: failed in allocating memory.", "running")

\* SlabBlock::create returned nullptr
allocate_NoMemory(A, h) ==
    Result(A, h, NullPtr, "allocate: failed in allocating memory.", "running")

\* void* allocate(); mem is the value _malloc returns if it is called
allocate(A, h, me, mem, ndbg) ==
    IF ~isFull(h[A.cache].bitMap)
    THEN ServeFrom(A, h, A.cache, ndbg)
    ELSE LET s == ScanNotFull(h, A.head, 0)
         IN  IF s.slab = NULL
             THEN IF mem = NULL
                  THEN allocate_NoMemory(A, h)
                  ELSE LET h1 == InsertAtHead(h, me, A.head, mem, A.unitMetaSize)
                           A1 == [A EXCEPT !.head = mem, !.cache = mem, !.total_count = @ + 1]
                           u == allocateUnit(h1[mem].bitMap)
                       IN  Result(A1, [h1 EXCEPT ![mem].bitMap = u.bitMap],
                                  [blk |-> mem, index |-> u.index], "", "running")
             ELSE LET promote == s.traverseCount > traverse_threshold
                      h1 == IF promote THEN MoveToFront(h, A.head, s.slab) ELSE h
                      A1 == [A EXCEPT !.head = IF promote THEN s.slab ELSE @,
                                      !.cache = s.slab]
                  IN  IF promote /\ h[s.slab].prev = NULL
                      THEN Result(A, h, NullPtr, "null dereference", "crashed")
                      ELSE ServeFrom(A1, h1, s.slab, ndbg)

\* the eviction branch without the reset of a cache that points at slab
Evict_StaleCache(A, h, slab, ndbg) ==
    LET isHead == slab = A.head
        newHead == IF isHead THEN h[A.head].next ELSE A.head
        p == h[slab].prev
        n == h[slab].next
        hU == IF isHead
              THEN [h EXCEPT ![newHead].prev = NULL]
              ELSE LET h1 == [h EXCEPT ![p].next = n]
                   IN  IF n # NULL THEN [h1 EXCEPT ![n].prev = p] ELSE h1
        A1 == [A EXCEPT !.head = newHead, !.total_count = @ - 1, !.reserved_count = @ - 1]
    IN  IF (isHead /\ newHead = NULL) \/ (~isHead /\ p = NULL)
        THEN Result([A EXCEPT !.head = newHead], h, 0, "null dereference", "crashed")
        ELSE Result(A1, destroy(hU, slab), 0, "", "running")

\* the eviction branch that frees slab without unlinking it from its neighbours
Evict_Dangling(A, h, slab, ndbg) ==
    LET newHead == IF slab = A.head THEN h[A.head].next ELSE A.head
    IN  Result([A EXCEPT !.head = newHead, !.total_count = @ - 1, !.reserved_count = @ - 1,
                         !.cache = IF slab = A.cache THEN newHead ELSE @],
               destroy(h, slab), 0, "", "running")

Evict_Never(A, h, slab, ndbg) == Result(A, h, 0, "", "running")

\* the eviction branch of deallocate(): slab has just become empty and
\* reserved_count (already incremented in A) exceeds reserved_limit
Evict(A, h, slab, ndbg) ==
    LET isHead == slab = A.head
        newHead == IF isHead THEN h[A.head].next ELSE A.head
        p == h[slab].prev
        n == h[slab].next
        hU == IF isHead
              THEN [h EXCEPT ![newHead].prev = NULL]
              ELSE LET h1 == [h EXCEPT ![p].next = n]
                   IN  IF n # NULL THEN [h1 EXCEPT ![n].prev = p] ELSE h1
        hD == destroy(hU, slab)
        okTotal == AssertPositive(A.total_count)
        okReserved == AssertPositive(A.reserved_count)
        A1 == [A EXCEPT !.head = newHead,
                        !.total_count = @ - 1,
                        !.reserved_count = @ - 1,
                        !.cache = IF slab = A.cache THEN newHead ELSE @]
    IN  IF (isHead /\ newHead = NULL) \/ (~isHead /\ p = NULL)
        THEN Result([A EXCEPT !.head = newHead], h, 0, "null dereference", "crashed")
        ELSE IF ~ndbg /\ ~okTotal
        THEN Result([A EXCEPT !.head = newHead], hD, 0, "assert: Invalid total count.", "aborted")
        ELSE IF ~ndbg /\ ~okReserved
        THEN Result([A EXCEPT !.head = newHead, !.total_count = @ - 1], hD, 0,
                    "assert: Invalid reserved count.", "aborted")
        ELSE Result(A1, hD, 0, "", "running")

OwnedBy_Anyone(h, slab, me) == TRUE

\* slab->allocator == this
OwnedBy(h, slab, me) == h[slab].allocator = me

ValidIndex_OffByOne(index) == index <= UnitsPerBlock

\* !(unit->index >= 64)
ValidIndex(index) == index < UnitsPerBlock

\* void deallocate(void* ptr), for ptr null or inside a block that is not freed
deallocate(A, h, me, ptr, ndbg) ==
    IF ptr = NullPtr
    THEN Result(A, h, 0, "deallocate: Invalid pointer nullptr.", "running")
    ELSE IF ~ValidIndex(ptr.index)
    THEN Result(A, h, 0, "deallocate: Invalid unit index", "running")
    ELSE IF ~OwnedBy(h, ptr.blk, me)
    THEN Result(A, h, 0, "deallocate: Invalid slab allocator.", "running")
    ELSE IF ~isUnitAllocated(h[ptr.blk].bitMap, ptr.index)
    THEN Result(A, h, 0, "deallocate: Unit is already freed in bitMap.", "running")
    ELSE LET h1 == [h EXCEPT ![ptr.blk].bitMap = deallocateUnit(@, ptr.index)]
             A1 == [A EXCEPT !.reserved_count = @ + 1]
         IN  IF ~isEmpty(h1[ptr.blk].bitMap)
             THEN Result(A, h1, 0, "", "running")
             ELSE IF UGt(A1.reserved_count, A1.reserved_limit)
             THEN Evict(A1, h1, ptr.blk, ndbg)
             ELSE Result(A1, h1, 0, "", "running")

\* a scan that settles on the last block with room instead of the first
RECURSIVE ScanRoom_Last(_, _, _)
ScanRoom_Last(h, slab, count) ==
    IF slab = NULL
    THEN NULL
    ELSE LET later == ScanRoom_Last(h, h[slab].next, count)
         IN  IF later # NULL THEN later
             ELSE IF popcnt64(h[slab].bitMap) >= count THEN slab ELSE NULL

\* the while loop of prepare_bulk(): the first block from slab with at least
\* count free units, or NULL when the last block has fewer too
RECURSIVE ScanRoom(_, _, _)
ScanRoom(h, slab, count) ==
    IF slab # NULL /\ popcnt64(h[slab].bitMap) < count
    THEN IF h[slab].next = NULL THEN NULL ELSE ScanRoom(h, h[slab].next, count)
    ELSE slab

\* SlabBlock::create returned nullptr
prepare_bulk_NoMemory(A, h) ==
    Result(A, h, FALSE, "prepare_bulk: can not allocate slab.", "running")

prepare_bulk_Uncounted(A, h, me, count, mem) ==
    IF count > UnitsPerBlock
    THEN Result(A, h, FALSE, "prepare_bulk: count must not be greater than 64.", "running")
    ELSE LET slab == ScanRoom(h, A.head, count)
         IN  IF slab = NULL
             THEN IF mem = NULL
                  THEN prepare_bulk_NoMemory(A, h)
                  ELSE Result([A EXCEPT !.head = mem, !.cache = mem],
                              InsertAtHead(h, me, A.head, mem, A.unitMetaSize), TRUE, "", "running")
             ELSE Result([A EXCEPT !.cache = slab], h, TRUE, "", "running")

\* bool prepare_bulk(const uint8_t count)
prepare_bulk(A, h, me, count, mem) ==
    IF count > UnitsPerBlock
    THEN Result(A, h, FALSE, "prepare_bulk: count must not be greater than 64.", "running")
    ELSE LET slab == ScanRoom(h, A.head, count)
         IN  IF slab = NULL
             THEN IF mem = NULL
                  THEN prepare_bulk_NoMemory(A, h)
                  ELSE Result([A EXCEPT !.head = mem, !.cache = mem, !.total_count = @ + 1],
                              InsertAtHead(h, me, A.head, mem, A.unitMetaSize), TRUE, "", "running")
             ELSE Result([A EXCEPT !.cache = slab], h, TRUE, "", "running")

\* the while loop of reclaim(), from the state R reached so far
RECURSIVE ReclaimFrom_WithinLimit(_, _, _, _)
ReclaimFrom_WithinLimit(R, prev, current, ndbg) ==
    IF current = NULL
    THEN R
    ELSE IF isEmpty(R.heap[current].bitMap)
            /\ UGt(R.alloc.reserved_count, R.alloc.reserved_limit)
    THEN LET n == R.heap[current].next
             h1 == destroy([R.heap EXCEPT ![prev].next = n], current)
             h2 == IF n # NULL THEN [h1 EXCEPT ![n].prev = prev] ELSE h1
             A1 == [R.alloc EXCEPT !.total_count = @ - 1, !.reserved_count = @ - 1]
         IN  ReclaimFrom_WithinLimit(Result(A1, h2, R.ret + 1, "", "running"), prev, n, ndbg)
    ELSE ReclaimFrom_WithinLimit(R, current, R.heap[current].next, ndbg)

\* the loop of reclaim() without current->prev = prev after a destruction
RECURSIVE ReclaimFrom_NoBacklink(_, _, _, _)
ReclaimFrom_NoBacklink(R, prev, current, ndbg) ==
    IF current = NULL
    THEN R
    ELSE IF isEmpty(R.heap[current].bitMap)
    THEN LET n == R.heap[current].next
             A == R.alloc
         IN  ReclaimFrom_NoBacklink(
                 Result([A EXCEPT !.total_count = @ - 1, !.reserved_count = @ - 1],
                        destroy([R.heap EXCEPT ![prev].next = n], current),
                        R.ret + 1, "", "running"),
                 prev, n, ndbg)
    ELSE ReclaimFrom_NoBacklink(R, current, R.heap[current].next, ndbg)

RECURSIVE ReclaimFrom(_, _, _, _)
ReclaimFrom(R, prev, current, ndbg) ==
    IF current = NULL
    THEN R
    ELSE IF isEmpty(R.heap[current].bitMap)
    THEN LET n == R.heap[current].next
             h1 == destroy([R.heap EXCEPT ![prev].next = n], current)
             h2 == IF n # NULL THEN [h1 EXCEPT ![n].prev = prev] ELSE h1
             A == R.alloc
         IN  IF ~ndbg /\ ~AssertPositive(A.total_count)
             THEN Result(A, h1, R.ret, "assert: Invalid total count.", "aborted")
             ELSE IF ~ndbg /\ ~AssertPositive(A.reserved_count)
             THEN Result([A EXCEPT !.total_count = @ - 1], h1, R.ret,
                         "assert: Invalid reserved count.", "aborted")
             ELSE ReclaimFrom(Result([A EXCEPT !.total_count = @ - 1, !.reserved_count = @ - 1],
                                     h2, R.ret + 1, "", "running"),
                              prev, n, ndbg)
    ELSE ReclaimFrom(R, current, R.heap[current].next, ndbg)

\* reclaim() without the final cache = head
reclaim_KeepCache(A, h, ndbg) ==
    IF A.head = NULL
    THEN Result(A, h, 0, "", "running")
    ELSE ReclaimFrom(Result(A, h, 0, "", "running"), A.head, h[A.head].next, ndbg)

\* uint32_t reclaim()
reclaim(A, h, ndbg) ==
    IF A.head = NULL
    THEN Result(A, h, 0, "", "running")
    ELSE LET R == ReclaimFrom(Result(A, h, 0, "", "running"), A.head, h[A.head].next, ndbg)
         IN  IF R.status = "running"
             THEN [R EXCEPT !.alloc.cache = R.alloc.head]
             ELSE R

\* deallocate(ptr) for ptr inside a block that has been passed to _free: the
\* reads of unit->index, slab->allocator and slab->bitMap are reads of freed
\* memory.  The outcomes kept here: the bytes read make one of the checks
\* return (a diagnosed no-op); the process faults; or the bytes read pass every
\* check and show the block empty, so that the eviction branch runs again on
\* the block already unlinked (a second _free of it, total_count decremented).
UseAfterFreeOutcomes(A, h) ==
    { Result(A, h, 0, "deallocate: Unit is already freed in bitMap.", "running"),
      Result(A, h, 0, "fault", "crashed"),
      Result([A EXCEPT !.total_count = @ - 1], h, 0, "second _free of the block", "corrupted") }

\* the blocks met from slab through next links, fuel of them at most
RECURSIVE ListFrom(_, _, _)
ListFrom(h, slab, fuel) ==
    IF slab = NULL \/ fuel = 0
    THEN <<>>
    ELSE <<slab>> \o ListFrom(h, h[slab].next, fuel - 1)

\* the list the allocator walks from head; a list that closes on itself shows
\* as a sequence longer than the number of block addresses
BlockList(h, head) == ListFrom(h, head, Cardinality(DOMAIN h) + 1)

\* one call made during teardown: _free(blk), or the destructor call on unit
\* index of blk
FreeCall(blk) == [call |-> "_free", blk |-> blk, index |-> 0]

UnitDestructorCall(blk, index) == [call |-> "~SlabUnit", blk |-> blk, index |-> index]

Teardown(h, trace, st) == [heap |-> h, trace |-> trace, status |-> st]

DestroyList_HeadOnly(h, slab, trace) ==
    IF slab = NULL
    THEN Teardown(h, trace, "destroyed")
    ELSE Teardown(destroy(h, slab), Append(trace, FreeCall(slab)), "destroyed")

\* the while loop of ~SlabAllocator() from slab on; trace is the calls made so
\* far.  A block already freed in the list is a read of freed memory and a
\* second _free of it.
RECURSIVE DestroyList(_, _, _)
DestroyList(h, slab, trace) ==
    IF slab = NULL
    THEN Teardown(h, trace, "destroyed")
    ELSE IF ~h[slab].live
    THEN Teardown(h, Append(trace, FreeCall(slab)), "corrupted")
    ELSE DestroyList(destroy(h, slab), h[slab].next, Append(trace, FreeCall(slab)))

\* ~SlabAllocator()
SlabAllocatorDestructor(A, h) ==
    LET T == DestroyList(h, A.head, <<>>)
    IN  Result(A, T.heap, T.trace, "", T.status)

\* for (i = index; i < 64; ++i) if (slab->isUnitAllocated(i)) unit->~SlabUnit();
\* SlabUnit holds index, offset and the payload bytes: the destructor named is
\* the unit header's, and no destructor of the object in the payload is called
RECURSIVE DestructUnits(_, _, _)
DestructUnits(bitMap, blk, index) ==
    IF index >= UnitsPerBlock
    THEN <<>>
    ELSE (IF isUnitAllocated(bitMap, index) THEN <<UnitDestructorCall(blk, index)>> ELSE <<>>)
         \o DestructUnits(bitMap, blk, index + 1)

\* the while loop of ~ObjectPool() from slab on
RECURSIVE DestroyPoolList(_, _, _)
DestroyPoolList(h, slab, trace) ==
    IF slab = NULL
    THEN Teardown(h, trace, "destroyed")
    ELSE IF ~h[slab].live
    THEN Teardown(h, Append(trace, FreeCall(slab)), "corrupted")
    ELSE DestroyPoolList(destroy(h, slab), h[slab].next,
                         Append(trace \o DestructUnits(h[slab].bitMap, slab, 0), FreeCall(slab)))

\* ~ObjectPool(), followed by the destructor of its base class SlabAllocator
\* on the head the derived destructor left (nullptr)
ObjectPoolDestructor(A, h) ==
    LET T == DestroyPoolList(h, A.head, <<>>)
        A1 == [A EXCEPT !.head = NULL, !.cache = NULL]
        B == IF T.status = "destroyed" THEN DestroyList(T.heap, A1.head, T.trace) ELSE T
    IN  Result(A1, B.heap, B.trace, "", B.status)

---------------------------------------------------------------------------
\* The callers.  Each action is one call of one public member function.


---------------------------------------------------------------------------
\* The two-list variant of SlabAllocator (src/unnamed/part_000): the non-full
\* blocks are on the circular list work, the full blocks on the circular list
\* full.  SlabUnit and SlabBlock are the same as in slab.hpp.

\* SlabAllocator(unitSize, reserved_limit), makeBlock having returned addr
ConstructorTwoList(addr, unitSize, reserved_limit) ==
    [work |-> addr, full |-> NULL, unitMetaSize |-> sizeofSlabUnit + AlignTo8(unitSize),
     total_count |-> 1, reserved_count |-> 1, reserved_limit |-> Max(reserved_limit, 1)]

\* makeBlock(): a constructed block linked to itself, at the address _malloc gave
makeBlock(h, me, slab, unitMetaSize) ==
    [h EXCEPT ![slab] = [construct(me, unitMetaSize) EXCEPT !.next = slab, !.prev = slab]]

\* slab->prev->next = slab->next; slab->next->prev = slab->prev
Unlink(h, slab) ==
    LET h1 == [h EXCEPT ![h[slab].prev].next = h[slab].next]
    IN  [h1 EXCEPT ![h1[slab].next].prev = h1[slab].prev]

\* slab->next = first; slab->prev = first->prev; slab->next->prev = slab;
\* slab->prev->next = slab
InsertBefore(h, slab, first) ==
    LET h1 == [h EXCEPT ![slab].next = first]
        h2 == [h1 EXCEPT ![slab].prev = h1[first].prev]
        h3 == [h2 EXCEPT ![h2[slab].next].prev = slab]
    IN  [h3 EXCEPT ![h3[slab].prev].next = slab]

\* slab->next = slab; slab->prev = slab
LinkToSelf(h, slab) == [h EXCEPT ![slab].next = slab, ![slab].prev = slab]

Moved(A, h) == [alloc |-> A, heap |-> h]

\* a block that has become full and is left on the work list
moveFromWorkToFull_Stay(A, h, slab) == Moved(A, h)

\* void moveFromWorkToFull(SlabBlock* slab), slab being the head of work
moveFromWorkToFull(A, h, slab) ==
    LET alone == h[slab].next = slab
        work1 == IF alone THEN NULL ELSE h[A.work].next
        h1 == IF alone THEN h
              ELSE LET g == [h EXCEPT ![work1].prev = h[slab].prev]
                   IN  [g EXCEPT ![g[slab].prev].next = work1]
        h2 == IF A.full # NULL THEN InsertBefore(h1, slab, A.full) ELSE LinkToSelf(h1, slab)
    IN  Moved([A EXCEPT !.work = work1, !.full = slab], h2)

\* void moveFromFullToWork(SlabBlock* slab)
moveFromFullToWork(A, h, slab) ==
    LET alone == h[slab].next = slab
        h1 == IF slab # A.full \/ ~alone THEN Unlink(h, slab) ELSE h
        full1 == IF slab # A.full THEN A.full
                 ELSE IF ~alone THEN h[slab].next ELSE NULL
        h2 == IF A.work # NULL THEN InsertBefore(h1, slab, A.work) ELSE LinkToSelf(h1, slab)
    IN  Moved([A EXCEPT !.full = full1, !.work = slab], h2)

\* removeFromWorkAndDestroy without --reserved_count
removeFromWorkAndDestroy_Uncounted(A, h, slab, ndbg) ==
    LET alone == h[slab].next = slab
        h1 == IF slab # A.work \/ ~alone THEN Unlink(h, slab) ELSE h
        work1 == IF slab # A.work THEN A.work
                 ELSE IF ~alone THEN h[slab].next ELSE NULL
    IN  Result([A EXCEPT !.work = work1, !.total_count = @ - 1], destroy(h1, slab), 0, "", "running")

\* void removeFromWorkAndDestroy(SlabBlock* slab)
removeFromWorkAndDestroy(A, h, slab, ndbg) ==
    LET alone == h[slab].next = slab
        h1 == IF slab # A.work \/ ~alone THEN Unlink(h, slab) ELSE h
        work1 == IF slab # A.work THEN A.work
                 ELSE IF ~alone THEN h[slab].next ELSE NULL
        hD == destroy(h1, slab)
        A1 == [A EXCEPT !.work = work1]
    IN  IF ~ndbg /\ ~AssertPositive(A.total_count)
        THEN Result(A1, hD, 0, "assert: Invalid total count.", "aborted")
        ELSE IF ~ndbg /\ ~AssertPositive(A.reserved_count)
        THEN Result([A1 EXCEPT !.total_count = @ - 1], hD, 0,
                    "assert: Invalid reserved count.", "aborted")
        ELSE Result([A1 EXCEPT !.total_count = @ - 1, !.reserved_count = @ - 1],
                    hD, 0, "", "running")

\* void* allocate() of the two-list variant; mem is the value _malloc returns
\* if it is called (makeBlock ends the process with exit(1) on nullptr)
allocateTwoList(A, h, me, mem, ndbg) ==
    IF A.work = NULL
    THEN IF mem = NULL
         THEN Result(A, h, NullPtr, "slabAllocator: failed in allocating memory.", "exited")
         ELSE LET h1 == makeBlock(h, me, mem, A.unitMetaSize)
                  u == allocateUnit(h1[mem].bitMap)
              IN  Result([A EXCEPT !.work = mem, !.total_count = @ + 1],
                         [h1 EXCEPT ![mem].bitMap = u.bitMap],
                         [blk |-> mem, index |-> u.index], "", "running")
    ELSE LET slab == A.work
             wasEmpty == isEmpty(h[slab].bitMap)
             A1 == IF wasEmpty THEN [A EXCEPT !.reserved_count = @ - 1] ELSE A
             u == allocateUnit(h[slab].bitMap)
             h1 == [h EXCEPT ![slab].bitMap = u.bitMap]
             ret == [blk |-> slab, index |-> u.index]
         IN  IF wasEmpty /\ ~AssertPositive(A.reserved_count) /\ ~ndbg
             THEN Result(A, h, NullPtr, "assert: Invalid reserved count.", "aborted")
             ELSE IF isFull(h[slab].bitMap)
             THEN Result(A1, h, NullPtr, "assert: SlabBlock is full, cannot allocate unit.",
                         IF ndbg THEN "corrupted" ELSE "aborted")
             ELSE IF isFull(h1[slab].bitMap)
             THEN LET M == moveFromWorkToFull(A1, h1, slab)
                  IN  Result(M.alloc, M.heap, ret, "", "running")
             ELSE Result(A1, h1, ret, "", "running")

\* void deallocate(void* ptr) of the two-list variant
deallocateTwoList(A, h, me, ptr, ndbg) ==
    IF ptr = NullPtr
    THEN Result(A, h, 0, "deallocate: Invalid pointer nullptr.", "running")
    ELSE IF ~ValidIndex(ptr.index)
    THEN Result(A, h, 0, "deallocate: Invalid unit index", "running")
    ELSE IF ~OwnedBy(h, ptr.blk, me)
    THEN Result(A, h, 0, "deallocate: Invalid slab allocator.", "running")
    ELSE IF ~isUnitAllocated(h[ptr.blk].bitMap, ptr.index)
    THEN Result(A, h, 0, "deallocate: Unit is already freed in bitMap.", "running")
    ELSE LET wasFull == isFull(h[ptr.blk].bitMap)
             h1 == [h EXCEPT ![ptr.blk].bitMap = deallocateUnit(@, ptr.index)]
             A1 == [A EXCEPT !.reserved_count = @ + 1]
         IN  IF wasFull
             THEN LET M == moveFromFullToWork(A, h1, ptr.blk)
                  IN  Result(M.alloc, M.heap, 0, "", "running")
             ELSE IF ~isEmpty(h1[ptr.blk].bitMap)
             THEN Result(A, h1, 0, "", "running")
             ELSE IF UGt(A1.reserved_count, A1.reserved_limit)
             THEN removeFromWorkAndDestroy(A1, h1, ptr.blk, ndbg)
             ELSE Result(A1, h1, 0, "", "running")

\* the blocks met from slab through next links until begin comes round again,
\* fuel of them at most
RECURSIVE RingFrom(_, _, _, _)
RingFrom(h, slab, begin, fuel) ==
    IF fuel = 0
    THEN <<>>
    ELSE <<slab>> \o (IF h[slab].next = begin \/ h[slab].next = NULL
                      THEN <<>>
                      ELSE RingFrom(h, h[slab].next, begin, fuel - 1))

\* the circular list that begins at begin, as print_stats walks it
Ring(h, begin) ==
    IF begin = NULL THEN <<>> ELSE RingFrom(h, begin, begin, Cardinality(DOMAIN h) + 1)

\* Pointers as addresses.  The operators above name a unit by its block and
\* index; the caller holds the address of the unit's payload, and deallocate
\* recovers block and index from that address and the header before it.

\* the address of block region blk: regions of size bytes lie back to back,
\* the closest the raw memory source can place them
AddressOf(blk, size) == blk * size

\* baseOffset + 64 * unitMetaSize, the size SlabBlock::create asks _malloc for
BlockBytes(unitMetaSize) == baseOffset + UnitsPerBlock * unitMetaSize

\* (SlabUnit*)((char*)this->payload + index * unitMetaSize), this at address slab
getUnitByIndex(slab, unitMetaSize, index) == slab + baseOffset + index * unitMetaSize

\* unit->payload
payload(unit) == unit + sizeofSlabUnit

getUnitFromPayload_Same(ptr) == ptr

\* (SlabUnit*)((char*)ptr - OFFSET_OF(SlabUnit, payload))
getUnitFromPayload(ptr) == ptr - sizeofSlabUnit

\* (SlabBlock*)((char*)unit - unit->offset)
getBlockFromUnit(unit, offset) == unit - offset

\* the unit headers stored at address unit: none if no live block has one there
HeadersAt(h, unitMetaSize, unit) ==
    {h[b].units[unit - AddressOf(b, BlockBytes(unitMetaSize))] :
        b \in {x \in DOMAIN h : /\ h[x].live
                                /\ unit - AddressOf(x, BlockBytes(unitMetaSize)) \in DOMAIN h[x].units}}

\* the block regions that start at address slab
BlocksAt(h, unitMetaSize, slab) ==
    {b \in DOMAIN h : h[b].live /\ AddressOf(b, BlockBytes(unitMetaSize)) = slab}

\* the address allocate() returns for the unit the operator names
PointerTo(A, ret) ==
    IF ret = NullPtr
    THEN NULL
    ELSE payload(getUnitByIndex(AddressOf(ret.blk, BlockBytes(A.unitMetaSize)), A.unitMetaSize, ret.index))

\* the units deallocate() can take the address ptr for
UnitsNamedBy(A, h, ptr) ==
    LET unit == getUnitFromPayload(ptr)
    IN  UNION {{[blk |-> b, index |-> u.index] :
                   b \in BlocksAt(h, A.unitMetaSize, getBlockFromUnit(unit, u.offset))} :
               u \in HeadersAt(h, A.unitMetaSize, unit)}

\* deallocate() of an address with no unit header before it reads bytes that
\* hold anything: a diagnosed no-op or a fault
NoHeaderOutcomes(A, h) ==
    { Result(A, h, 0, "deallocate: Invalid unit index", "running"),
      Result(A, h, 0, "fault", "crashed") }

LiveBlocks(h, a) == {b \in DOMAIN h : h[b].live /\ h[b].allocator = a}

CanCall(a) == status = "running" /\ alloc[a].reserved_count >= -MaxUnderflow

Return(a, op, ptr, R, out) ==
    /\ alloc' = [alloc EXCEPT ![a] = R.alloc]
    /\ heap' = R.heap
    /\ status' = R.status
    /\ last' = [op |-> op, al |-> a, ptr |-> ptr, ret |-> R.ret, diag |-> R.diag]
    /\ outstanding' = out
    /\ UNCHANGED ndebug

Allocate(a) ==
    /\ CanCall(a)
    /\ \E mem \in MallocResults(heap) :
          LET R == allocate(alloc[a], heap, a, mem, ndebug)
          IN  Return(a, "allocate", R.ret, R,
                     IF R.status = "running" /\ R.ret # NullPtr
                     THEN [outstanding EXCEPT ![a] = @ \cup {R.ret}]
                     ELSE outstanding)

\* deallocate of a pointer the caller holds from this allocator
Deallocate(a) ==
    /\ CanCall(a)
    /\ \E ptr \in outstanding[a] :
          Return(a, "deallocate", ptr, deallocate(alloc[a], heap, a, ptr, ndebug),
                 [outstanding EXCEPT ![a] = @ \ {ptr}])

PrepareBulk(a) ==
    /\ CanCall(a)
    /\ \E count \in 0..(UnitsPerBlock + 1), mem \in MallocResults(heap) :
          LET R == prepare_bulk(alloc[a], heap, a, count, mem)
          IN  Return(a, "prepare_bulk", NullPtr, R, outstanding)

Reclaim(a) ==
    /\ CanCall(a)
    /\ Return(a, "reclaim", NullPtr, reclaim(alloc[a], heap, ndebug), outstanding)

\* misuse: deallocate(nullptr)
DeallocateNull(a) ==
    /\ CanCall(a)
    /\ Return(a, "deallocate_null", NullPtr,
              deallocate(alloc[a], heap, a, NullPtr, ndebug), outstanding)

\* misuse: a pointer whose preceding eight bytes are not a unit header written
\* by SlabBlock::construct: the index read is 64 or more, the offset leads to blk
DeallocateBadIndex(a) ==
    /\ CanCall(a)
    /\ \E blk \in LiveBlocks(heap, a), index \in {UnitsPerBlock, UnitsPerBlock + 1} :
          LET ptr == [blk |-> blk, index |-> index]
          IN  Return(a, "deallocate_badindex", NullPtr,
                     deallocate(alloc[a], heap, a, ptr, ndebug), outstanding)

\* misuse: the pointer of the deallocate call just made is passed again
DeallocateTwice(a) ==
    /\ CanCall(a)
    /\ last.op = "deallocate" /\ last.al = a /\ last.diag = ""
    /\ \E R \in (IF heap[last.ptr.blk].live
                 THEN {deallocate(alloc[a], heap, a, last.ptr, ndebug)}
                 ELSE UseAfterFreeOutcomes(alloc[a], heap)) :
          Return(a, "deallocate_twice", last.ptr, R, outstanding)

\* misuse: a pointer lent by allocator a is passed to allocator b
DeallocateForeign(b) ==
    /\ CanCall(b)
    /\ \E a \in DOMAIN alloc \ {b} : \E ptr \in outstanding[a] :
          Return(b, "deallocate_foreign", ptr,
                 deallocate(alloc[b], heap, b, ptr, ndebug), outstanding)

\* the allocator object goes out of scope (main.cpp: slabAlloc at the end of
\* the test function)
Destructor(a) ==
    /\ CanCall(a)
    /\ Return(a, "~SlabAllocator", NullPtr, SlabAllocatorDestructor(alloc[a], heap), outstanding)

\* the allocator object is an ObjectPool<T> whose outstanding units hold the
\* objects constructed by ObjectPool::allocate, and it goes out of scope
PoolDestructor(a) ==
    /\ CanCall(a)
    /\ Return(a, "~ObjectPool", NullPtr, ObjectPoolDestructor(alloc[a], heap), outstanding)

\* the number of allocate() calls that have returned a unit not given back
Held(a) == Cardinality(outstanding[a])

\* the allocate branch of the loop of main.cpp: slab_ptrs.size() < MAX_ALLOCATIONS
ChurnAllocate(a) ==
    /\ Held(a) < MaxAllocations
    /\ Allocate(a)

\* Scenario A/B of the specification: allocate calls only, then deallocate
\* calls only
ScenarioAllocate(a) ==
    /\ last.op \in {"construct", "allocate"}
    /\ Allocate(a)

\* units of a pool of DeepBlocks full blocks that the caller does not hold
Holes(a) == DeepBlocks * UnitsPerBlock - Held(a)

\* a caller that fills DeepBlocks blocks and then keeps them nearly full:
\* allocate while it holds fewer units than DeepBlocks blocks have
DeepAllocate(a) ==
    /\ Holes(a) > 0
    /\ Allocate(a)

\* the same caller gives a unit back only while fewer than MaxHoles are free
DeepDeallocate(a) ==
    /\ Holes(a) < MaxHoles
    /\ Deallocate(a)

\* allocate() seen by a caller that holds addresses
LayoutAllocate(a) ==
    /\ CanCall(a)
    /\ \E mem \in MallocResults(heap) :
          LET R == allocate(alloc[a], heap, a, mem, ndebug)
              ptr == PointerTo(alloc[a], R.ret)
          IN  Return(a, "allocate", ptr, [R EXCEPT !.ret = ptr],
                     IF R.status = "running" /\ ptr # NULL
                     THEN [outstanding EXCEPT ![a] = @ \cup {ptr}]
                     ELSE outstanding)

\* deallocate(ptr) of an address the caller holds: the unit is the one the
\* header before ptr names; bytes that are no header leave the outcome open
LayoutDeallocate(a) ==
    /\ CanCall(a)
    /\ \E ptr \in outstanding[a] :
          LET named == UnitsNamedBy(alloc[a], heap, ptr)
          IN  \E R \in (IF named = {}
                       THEN NoHeaderOutcomes(alloc[a], heap)
                       ELSE {deallocate(alloc[a], heap, a, u, ndebug) : u \in named}) :
                 Return(a, "deallocate", ptr, R, [outstanding EXCEPT ![a] = @ \ {ptr}])

\* allocate() of the two-list variant, in the loop of main.cpp
AllocateTwoList(a) ==
    /\ CanCall(a)
    /\ Held(a) < MaxAllocations
    /\ \E mem \in MallocResults(heap) :
          LET R == allocateTwoList(alloc[a], heap, a, mem, ndebug)
          IN  Return(a, "allocate", R.ret, R,
                     IF R.status = "running" /\ R.ret # NullPtr
                     THEN [outstanding EXCEPT ![a] = @ \cup {R.ret}]
                     ELSE outstanding)

\* deallocate() of the two-list variant, of a pointer the caller holds
DeallocateTwoList(a) ==
    /\ CanCall(a)
    /\ \E ptr \in outstanding[a] :
          Return(a, "deallocate", ptr, deallocateTwoList(alloc[a], heap, a, ptr, ndebug),
                 [outstanding EXCEPT ![a] = @ \ {ptr}])

---------------------------------------------------------------------------
\* The shape of the state.

BlockType ==
    [live : BOOLEAN, allocator : AllocIds \cup {0}, next : DOMAIN heap \cup {NULL},
     prev : DOMAIN heap \cup {NULL}, bitMap : SUBSET Slots,
     units : {<<>>} \cup {construct(0, Constructor(0, unitSize, 0).unitMetaSize).units :
                             unitSize \in UnitSizes \cup {fixed_size}}]

AllocatorType ==
    [head : DOMAIN heap \cup {NULL}, cache : DOMAIN heap \cup {NULL}, unitMetaSize : Nat,
     total_count : Int,
     reserved_count : Int, reserved_limit : Nat \ {0}]

TypeOK ==
    /\ DOMAIN alloc \subseteq AllocIds
    /\ \A a \in DOMAIN alloc : alloc[a] \in AllocatorType
    /\ DOMAIN heap \in {Addrs, 1..ChurnBlocks, 1..DeepBlocks}
    /\ \A b \in DOMAIN heap : heap[b] \in BlockType
    /\ \A a \in DOMAIN alloc : \A p \in outstanding[a] : p.blk \in DOMAIN heap /\ p.index \in Slots
    /\ status \in {"running", "aborted", "crashed", "corrupted", "destroyed", "exited"}
    /\ ndebug \in BOOLEAN

---------------------------------------------------------------------------
\* Specifications.

NoCall == [op |-> "construct", al |-> 0, ptr |-> NullPtr, ret |-> 0, diag |-> ""]

\* one allocator, freshly constructed
Init ==
    /\ ndebug \in BOOLEAN
    /\ \E reserved_limit \in ReservedLimits : alloc = [a \in {1} |-> Constructor(1, fixed_size, reserved_limit)]
    /\ heap = [b \in Addrs |-> IF b = 1 THEN construct(1, alloc[1].unitMetaSize) ELSE FreedBlock]
    /\ outstanding = [a \in {1} |-> {}]
    /\ last = NoCall
    /\ status = "running"

\* two allocators, freshly constructed
InitTwo ==
    /\ ndebug \in BOOLEAN
    /\ \E reserved_limit \in ReservedLimits : alloc = [a \in AllocIds |-> Constructor(a, fixed_size, reserved_limit)]
    /\ heap = [b \in Addrs |-> IF b \in AllocIds THEN construct(b, alloc[b].unitMetaSize) ELSE FreedBlock]
    /\ outstanding = [a \in AllocIds |-> {}]
    /\ last = NoCall
    /\ status = "running"

\* one allocator, freshly constructed, over the larger raw memory source
InitChurn ==
    /\ ndebug \in BOOLEAN
    /\ \E reserved_limit \in ReservedLimits : alloc = [a \in {1} |-> Constructor(1, fixed_size, reserved_limit)]
    /\ heap = [b \in 1..ChurnBlocks |-> IF b = 1 THEN construct(1, alloc[1].unitMetaSize) ELSE FreedBlock]
    /\ outstanding = [a \in {1} |-> {}]
    /\ last = NoCall
    /\ status = "running"

\* one allocator, freshly constructed, over a raw memory source of DeepBlocks
InitDeep ==
    /\ ndebug \in BOOLEAN
    /\ \E reserved_limit \in ReservedLimits : alloc = [a \in {1} |-> Constructor(1, fixed_size, reserved_limit)]
    /\ heap = [b \in 1..DeepBlocks |-> IF b = 1 THEN construct(1, alloc[1].unitMetaSize) ELSE FreedBlock]
    /\ outstanding = [a \in {1} |-> {}]
    /\ last = NoCall
    /\ status = "running"

\* one allocator, freshly constructed for units of any of the sizes, in a
\* build with asserts
InitLayout ==
    /\ ndebug = FALSE
    /\ \E unitSize \in UnitSizes, reserved_limit \in ReservedLimits :
          alloc = [a \in {1} |-> Constructor(1, unitSize, reserved_limit)]
    /\ heap = [b \in Addrs |-> IF b = 1 THEN construct(1, alloc[1].unitMetaSize) ELSE FreedBlock]
    /\ outstanding = [a \in {1} |-> {}]
    /\ last = NoCall
    /\ status = "running"

\* one allocator of the two-list variant, freshly constructed
InitTwoList ==
    /\ ndebug \in BOOLEAN
    /\ \E reserved_limit \in ReservedLimits :
          alloc = [a \in {1} |-> ConstructorTwoList(1, fixed_size, reserved_limit)]
    /\ heap = makeBlock([b \in 1..ChurnBlocks |-> FreedBlock], 1, 1, alloc[1].unitMetaSize)
    /\ outstanding = [a \in {1} |-> {}]
    /\ last = NoCall
    /\ status = "running"

Next ==
    \/ \E a \in DOMAIN alloc : Allocate(a)
    \/ \E a \in DOMAIN alloc : Deallocate(a)
    \/ \E a \in DOMAIN alloc : PrepareBulk(a)
    \/ \E a \in DOMAIN alloc : Reclaim(a)

NextMisuse ==
    \/ Next
    \/ \E a \in DOMAIN alloc : DeallocateNull(a)
    \/ \E a \in DOMAIN alloc : DeallocateBadIndex(a)

NextTwice ==
    \/ Next
    \/ \E a \in DOMAIN alloc : DeallocateTwice(a)

NextTwo ==
    \/ \E a \in DOMAIN alloc : Allocate(a)
    \/ \E a \in DOMAIN alloc : Deallocate(a)
    \/ \E b \in DOMAIN alloc : DeallocateForeign(b)

NextTeardown ==
    \/ Next
    \/ \E a \in DOMAIN alloc : Destructor(a)
    \/ \E a \in DOMAIN alloc : PoolDestructor(a)

NextChurn ==
    \/ \E a \in DOMAIN alloc : ChurnAllocate(a)
    \/ \E a \in DOMAIN alloc : Deallocate(a)

NextLayout ==
    \/ \E a \in DOMAIN alloc : LayoutAllocate(a)
    \/ \E a \in DOMAIN alloc : LayoutDeallocate(a)

NextSweep ==
    \/ \E a \in DOMAIN alloc : ChurnAllocate(a)
    \/ \E a \in DOMAIN alloc : Deallocate(a)
    \/ \E a \in DOMAIN alloc : Reclaim(a)

NextTwoList ==
    \/ \E a \in DOMAIN alloc : AllocateTwoList(a)
    \/ \E a \in DOMAIN alloc : DeallocateTwoList(a)

NextScenario ==
    \/ \E a \in DOMAIN alloc : ScenarioAllocate(a)
    \/ \E a \in DOMAIN alloc : Deallocate(a)

NextDeep ==
    \/ \E a \in DOMAIN alloc : DeepAllocate(a)
    \/ \E a \in DOMAIN alloc : DeepDeallocate(a)

\* well-behaved callers of one allocator
Spec == Init /\ [][Next]_vars

\* well-behaved callers of one allocator or object pool, until it is destroyed
SpecTeardown == Init /\ [][NextTeardown]_vars

\* the traffic of main.cpp: allocate and deallocate calls in any order
SpecChurn == InitChurn /\ [][NextChurn]_vars

\* a run of allocate calls followed by a run of deallocate calls
SpecScenario == InitChurn /\ [][NextScenario]_vars

\* one allocator whose callers also pass null and forged pointers to deallocate
SpecMisuse == Init /\ [][NextMisuse]_vars

\* one allocator whose callers also deallocate a pointer twice in a row
SpecTwice == Init /\ [][NextTwice]_vars

\* two allocators sharing the raw memory source
SpecTwo == InitTwo /\ [][NextTwo]_vars

\* the two-list variant under the allocate / deallocate loop
SpecTwoList == InitTwoList /\ [][NextTwoList]_vars

\* the allocate / deallocate loop with reclaim calls in between
SpecSweep == InitChurn /\ [][NextSweep]_vars

\* one allocator of any unit size whose caller holds payload addresses
SpecLayout == InitLayout /\ [][NextLayout]_vars

\* one allocator whose caller keeps a pool of DeepBlocks blocks nearly full
SpecDeep == InitDeep /\ [][NextDeep]_vars

---------------------------------------------------------------------------
\* Properties.

Empties(h, a) == {b \in LiveBlocks(h, a) : isEmpty(h[b].bitMap)}

Lent(a, b) == {p \in outstanding[a] : p.blk = b}

AllocatorState == <<alloc, heap>>

\* C1: allocate() never returns an address that is outstanding: the unit it
\* returns lies in a live block of the allocator, its bit was 1 before the call
\* (when the block existed before the call) and is 0 after it.
C1_AllocateReturnsFreeUnit ==
    [][(last'.op = "allocate" /\ status' = "running" /\ last'.ptr # NullPtr) =>
          LET p == last'.ptr
              a == last'.al
          IN  /\ \A x \in DOMAIN alloc : p \notin outstanding[x]
              /\ heap[p.blk].live => (heap[p.blk].allocator = a /\ p.index \in heap[p.blk].bitMap)
              /\ heap'[p.blk].live /\ heap'[p.blk].allocator = a
              /\ p.index \in Slots /\ p.index \notin heap'[p.blk].bitMap]_vars

\* an allocate() has just returned a unit while more units are outstanding
\* than one block holds
C1_Witness ==
    /\ last.op = "allocate" /\ status = "running" /\ last.ptr \in outstanding[last.al]
    /\ Cardinality(outstanding[last.al]) > UnitsPerBlock

\* C2: for every live block, the number of bits set in bitMap plus the number
\* of its units that are outstanding equals the number of units of a block.
C2_BitsPlusOutstanding ==
    \A a \in DOMAIN alloc : \A b \in LiveBlocks(heap, a) :
        popcnt64(heap[b].bitMap) + Cardinality(Lent(a, b)) = UnitsPerBlock

\* a deallocate has returned leaving its block partly used
C2_Witness ==
    /\ last.op = "deallocate" /\ status = "running"
    /\ heap[last.ptr.blk].live
    /\ ~isEmpty(heap[last.ptr.blk].bitMap) /\ ~isFull(heap[last.ptr.blk].bitMap)

\* C3: between operations reserved_count equals the number of live blocks of
\* the allocator that are empty.
C3_ReservedCountsEmptyBlocks ==
    status = "running" =>
        \A a \in DOMAIN alloc : alloc[a].reserved_count = Cardinality(Empties(heap, a))

\* C4: reserved_count <= total_count (as unsigned values) in every state, and
\* no "Invalid reserved count" / "Invalid total count" assertion fails.
C4_CountersNeverUnderflow ==
    /\ status # "aborted"
    /\ \A a \in DOMAIN alloc :
          /\ alloc[a].reserved_count >= 0
          /\ alloc[a].total_count >= 0
          /\ ~UGt(alloc[a].reserved_count, alloc[a].total_count)

\* C5: when a deallocate() call has returned, reserved_count <= reserved_limit.
C5_ReservedWithinLimitAfterDeallocate ==
    (last.op = "deallocate" /\ status = "running") =>
        ~UGt(alloc[last.al].reserved_count, alloc[last.al].reserved_limit)

C7_SecondDeallocateIsNoOp ==
    [][last'.op = "deallocate_twice" =>
          (alloc' = alloc /\ heap' = heap /\ status' = "running")]_vars

\* C8: B.deallocate(p) for p outstanding from another allocator A is rejected
\* and changes no allocator, no block and no outstanding unit.
C8_ForeignPointerRejected ==
    [][last'.op = "deallocate_foreign" =>
          /\ last'.diag = "deallocate: Invalid slab allocator."
          /\ alloc' = alloc /\ heap' = heap /\ outstanding' = outstanding
          /\ status' = "running"]_vars

\* B has rejected a pointer of A while A has units outstanding
C8_Witness ==
    /\ last.op = "deallocate_foreign" /\ status = "running"
    /\ \E a \in DOMAIN alloc \ {last.al} : last.ptr \in outstanding[a]

\* C9: deallocate(nullptr) and deallocate of a pointer whose unit header reads
\* an index >= 64 return without changing any allocator state.
C9_NullAndBadIndexAreNoOps ==
    [][last'.op \in {"deallocate_null", "deallocate_badindex"} =>
          /\ alloc' = alloc /\ heap' = heap /\ outstanding' = outstanding
          /\ status' = "running"
          /\ last'.diag \in {"deallocate: Invalid pointer nullptr.",
                             "deallocate: Invalid unit index"}]_vars

\* a pointer with a bad index has been rejected while units are outstanding
C9_Witness ==
    /\ last.op = "deallocate_badindex" /\ status = "running"
    /\ outstanding[last.al] # {}

\* C10: when a new block is required and the raw memory source fails,
\* allocate() returns null and prepare_bulk() returns false, the process keeps
\* running and the allocator state is unchanged; an allocate() retried after
\* such a failure that obtains memory creates the block and returns its unit 0.
AllFull(h, a) == \A b \in LiveBlocks(h, a) : isFull(h[b].bitMap)

C10_MemoryFailureIsReported ==
    [][/\ (last'.op = "allocate" /\ AllFull(heap, last'.al) /\ FreeAddrs(heap) = {}) =>
             (last'.ptr = NullPtr /\ AllocatorState' = AllocatorState /\ status' = "running")
       /\ (last'.op = "allocate" /\ last'.diag = "allocate: failed in allocating memory.") =>
             (last'.ptr = NullPtr /\ AllocatorState' = AllocatorState /\ status' = "running")
       /\ (last'.op = "prepare_bulk" /\ last'.diag = "prepare_bulk: can not allocate slab.") =>
             (last'.ret = FALSE /\ AllocatorState' = AllocatorState /\ status' = "running")
       /\ (/\ last.op = "allocate" /\ last.diag = "allocate: failed in allocating memory."
           /\ last'.op = "allocate" /\ last'.diag = "") =>
             /\ status' = "running"
             /\ ~heap[last'.ptr.blk].live /\ heap'[last'.ptr.blk].live
             /\ last'.ptr.index = 0
             /\ alloc'[last'.al].total_count = alloc[last'.al].total_count + 1]_vars

\* an allocate() has failed for lack of memory with every block full; the
\* process runs on and the raw memory source has a region for a later call
C10_Witness ==
    /\ last.op = "allocate" /\ last.diag = "allocate: failed in allocating memory."
    /\ status = "running" /\ AllFull(heap, last.al)
    /\ FreeAddrs(heap) # {}

\* the next n allocate() calls from (A, h), whatever _malloc would return if it
\* were called: each returns a unit and leaves total_count as it was
RECURSIVE ServedWithoutNewBlock(_, _, _, _, _)
ServedWithoutNewBlock(A, h, me, n, ndbg) ==
    \/ n = 0
    \/ \A mem \in MallocResults(h) :
          LET R == allocate(A, h, me, mem, ndbg)
          IN  /\ R.status = "running" /\ R.ret # NullPtr
              /\ R.alloc.total_count = A.total_count
              /\ ServedWithoutNewBlock(R.alloc, R.heap, me, n - 1, ndbg)

\* the state after n allocate() calls from R that need no new block
RECURSIVE AfterAllocates(_, _, _, _)
AfterAllocates(R, me, n, ndbg) ==
    IF n = 0 THEN R ELSE AfterAllocates(allocate(R.alloc, R.heap, me, NULL, ndbg), me, n - 1, ndbg)

\* C11: in every state between calls, for every n up to the units of a block,
\* when prepare_bulk(n) returns true the next n allocate() calls all return a
\* unit and none of them creates a block; on a fresh allocator, after
\* prepare_bulk of a whole block the allocate() call after those creates
\* exactly one block.
C11_PrepareBulkGuarantee ==
    status = "running" =>
        \A a \in DOMAIN alloc :
            /\ \A n \in 0..UnitsPerBlock, mem \in MallocResults(heap) :
                  LET R == prepare_bulk(alloc[a], heap, a, n, mem)
                  IN  R.ret = TRUE => ServedWithoutNewBlock(R.alloc, R.heap, a, n, ndebug)
            /\ last = NoCall =>
                  \A mem \in MallocResults(heap) \ {NULL} :
                      LET R == prepare_bulk(alloc[a], heap, a, UnitsPerBlock, NULL)
                          S == AfterAllocates(R, a, UnitsPerBlock, ndebug)
                          T == allocate(S.alloc, S.heap, a, mem, ndebug)
                      IN  /\ R.ret = TRUE
                          /\ T.status = "running" /\ T.ret # NullPtr
                          /\ T.alloc.total_count = alloc[a].total_count + 1

\* C12: on a freshly constructed allocator, after N >= 1 allocate() calls that
\* returned a unit and no deallocate, total_count is N divided by the units of
\* a block, rounded up, and reserved_count is 0.
C12_TotalAfterAllocatesOnly ==
    \A a \in DOMAIN alloc :
        (last.op \in {"construct", "allocate"} /\ Held(a) >= 1) =>
            /\ status = "running"
            /\ alloc[a].total_count = (Held(a) + UnitsPerBlock - 1) \div UnitsPerBlock
            /\ alloc[a].reserved_count = 0

\* only allocate calls so far, and the last one filled more than two blocks
C12_Witness ==
    /\ last.op = "allocate" /\ last.ptr # NullPtr /\ status = "running"
    /\ Held(last.al) > 2 * UnitsPerBlock

\* C13: when allocate calls only, on a fresh allocator, have been followed by
\* deallocate calls of all the units in any order, reserved_count is at most
\* reserved_limit and total_count at most reserved_limit + 1.
C13_AllFreedWithinLimit ==
    \A a \in DOMAIN alloc :
        (last.op = "deallocate" /\ Held(a) = 0) =>
            /\ status = "running"
            /\ ~UGt(alloc[a].reserved_count, alloc[a].reserved_limit)
            /\ alloc[a].total_count <= alloc[a].reserved_limit + 1

\* every unit has been given back and, of the blocks the allocate calls had
\* created, only the last one is left
C13_Witness ==
    /\ last.op = "deallocate" /\ status = "running" /\ Held(last.al) = 0
    /\ LiveBlocks(heap, last.al) = {ChurnBlocks}
    /\ alloc[last.al].total_count = 1

\* C14: a call that passes a block to _free (the eviction of deallocate, or
\* reclaim) passes a block of which no unit is outstanding, the unit being
\* deallocated by that very call aside; and after every call each outstanding
\* unit lies in a live block of its allocator.
C14_OnlyEmptyBlocksDestroyed ==
    [][\A a \in DOMAIN alloc :
          /\ \A b \in LiveBlocks(heap, a) :
                ~heap'[b].live =>
                    /\ last'.op \in {"deallocate", "reclaim"}
                    /\ Lent(a, b) \subseteq (IF last'.op = "deallocate" THEN {last'.ptr} ELSE {})
                    /\ popcnt64(heap[b].bitMap) + Cardinality(Lent(a, b)) = UnitsPerBlock
          /\ \A p \in outstanding'[a] :
                heap'[p.blk].live /\ heap'[p.blk].allocator = a]_vars

\* a reclaim has passed a block to _free while units of another block are
\* outstanding
C14_Witness ==
    /\ last.op = "reclaim" /\ status = "running" /\ last.ret >= 1
    /\ outstanding[last.al] # {}

\* the calls of one kind in the trace of a destructor, in order
IsFreeCall(e) == e.call = "_free"

FreeCalls(trace) == SelectSeq(trace, IsFreeCall)

Range(seq) == {seq[i] : i \in DOMAIN seq}

\* the list from head holds each live block of the allocator once, and nothing else
ListHoldsLiveBlocks(h, A, a) ==
    LET list == BlockList(h, A.head)
    IN  /\ Range(list) = LiveBlocks(h, a)
        /\ Len(list) = Cardinality(LiveBlocks(h, a))

\* C15: _free is called only on blocks obtained from _malloc and not freed
\* since: between calls the allocator's list holds exactly its live blocks,
\* each once, so no walk meets a freed block and no block is lost; every block
\* a call frees was live and in that list; and a destructor (of SlabAllocator,
\* or of ObjectPool followed by its base) calls _free once on each live block
\* and on nothing else, leaving no block of the allocator live.
C15_RawFreeDiscipline ==
    /\ [](/\ status # "corrupted"
          /\ status = "running" =>
                \A a \in DOMAIN alloc : ListHoldsLiveBlocks(heap, alloc[a], a))
    /\ [][heap' # heap =>
             \A a \in DOMAIN alloc :
                 LET freed == {b \in DOMAIN heap : heap[b].live /\ ~heap'[b].live}
                     F == FreeCalls(last'.ret)
                 IN  /\ freed \subseteq LiveBlocks(heap, a)
                     /\ last'.op \in {"~SlabAllocator", "~ObjectPool"} =>
                           /\ status' = "destroyed"
                           /\ Len(F) = Cardinality(LiveBlocks(heap, a))
                           /\ {F[i].blk : i \in DOMAIN F} = LiveBlocks(heap, a)
                           /\ freed = LiveBlocks(heap, a)
                           /\ LiveBlocks(heap', a) = {}]_vars

\* the destructor of an allocator has freed more than one block
C15_Witness ==
    /\ last.op = "~SlabAllocator" /\ status = "destroyed"
    /\ Len(FreeCalls(last.ret)) >= 2
    /\ \A b \in DOMAIN heap : ~heap[b].live

\* the number of units of live blocks of allocator a whose bit is 0
Used(h, a) ==
    Cardinality({<<b, i>> \in LiveBlocks(h, a) \X Slots : isUnitAllocated(h[b].bitMap, i)})

\* C16: in every state between calls, p = allocate() that returns a unit,
\* followed at once by deallocate(p), brings the number of allocated units of
\* the allocator back to its value before the allocate and leaves every block
\* that existed before the allocate live with the bitMap it had.
C16_AllocateDeallocateRoundTrip ==
    status = "running" =>
        \A a \in DOMAIN alloc : \A mem \in MallocResults(heap) :
            LET R == allocate(alloc[a], heap, a, mem, ndebug)
                S == deallocate(R.alloc, R.heap, a, R.ret, ndebug)
            IN  (R.status = "running" /\ R.ret # NullPtr) =>
                    /\ S.status = "running"
                    /\ Used(S.heap, a) = Used(heap, a)
                    /\ \A b \in LiveBlocks(heap, a) :
                          S.heap[b].live /\ S.heap[b].bitMap = heap[b].bitMap

\* the positions in a destructor's trace of the calls of T's destructor on the
\* object in unit index of blk.  The object of a unit is the T that
\* ObjectPool::allocate constructed in its payload; the call ~ObjectPool makes
\* on an allocated unit is UnitDestructorCall, the destructor of the unit header.
ObjectDestructorCalls(trace, blk, index) ==
    {i \in DOMAIN trace : trace[i] = [call |-> "~T", blk |-> blk, index |-> index]}

FreePositions(trace, blk) == {i \in DOMAIN trace : trace[i] = FreeCall(blk)}

\* C17: when an ObjectPool<T> is destroyed, for every live block and every
\* unit of it whose bit is 0, T's destructor is called on the object of that
\* unit exactly once, before the block is passed to _free; and it is called
\* on no unit whose bit is 1.
C17_PoolTeardownDestructsObjects ==
    [][last'.op = "~ObjectPool" =>
          \A b \in LiveBlocks(heap, last'.al) : \A i \in Slots :
              LET calls == ObjectDestructorCalls(last'.ret, b, i)
              IN  IF isUnitAllocated(heap[b].bitMap, i)
                  THEN /\ Cardinality(calls) = 1
                       /\ \A c \in calls : \A f \in FreePositions(last'.ret, b) : c < f
                  ELSE calls = {}]_vars

\* C18: between calls total_count equals the number of blocks reached from
\* head through next links, which equals the number of blocks created and not
\* yet destroyed (the live blocks of the allocator).
C18_TotalCountsListedBlocks ==
    status = "running" =>
        \A a \in DOMAIN alloc :
            /\ alloc[a].total_count = Len(BlockList(heap, alloc[a].head))
            /\ alloc[a].total_count = Cardinality(LiveBlocks(heap, a))

\* prepare_bulk has just created a block beside one that is in use
C18_Witness ==
    /\ last.op = "prepare_bulk" /\ status = "running" /\ last.ret = TRUE
    /\ alloc[last.al].total_count >= 2
    /\ isEmpty(heap[alloc[last.al].head].bitMap)
    /\ alloc[last.al].cache = alloc[last.al].head
    /\ outstanding[last.al] # {}

\* the blocks of a list that have a free unit, in list order
HasRoom(h, list) == SelectSeq(list, LAMBDA b : h[b].bitMap # {})

\* C19: an allocate() that returns a unit takes it from the cache block when
\* that block has a free unit, and otherwise from the first block in list
\* order from head that has one; it creates a block only when every live block
\* is full, and when every live block is full it creates one (or, the raw
\* memory source failing, returns null as in C10).
C19_AllocateServingOrder ==
    [][(last'.op = "allocate" /\ status' = "running") =>
          LET a == last'.al
              A == alloc[a]
              p == last'.ptr
              room == HasRoom(heap, BlockList(heap, A.head))
              created == LiveBlocks(heap', a) \ LiveBlocks(heap, a)
          IN  /\ heap[A.cache].bitMap # {} => (p.blk = A.cache /\ created = {})
              /\ (heap[A.cache].bitMap = {} /\ room # <<>>) => (p.blk = room[1] /\ created = {})
              /\ room = <<>> => \/ p # NullPtr /\ created = {p.blk}
                                \/ p = NullPtr /\ created = {}
                                   /\ last'.diag = "allocate: failed in allocating memory."
              /\ created # {} => room = <<>>]_vars

\* an allocate() has found the cache block full and taken a unit from the
\* first of two later blocks that had room
C19_Witness ==
    /\ last.op = "allocate" /\ status = "running" /\ last.ptr # NullPtr
    /\ LET A == alloc[last.al]
           list == BlockList(heap, A.head)
       IN  /\ Len(list) = 3
           /\ heap[list[1]].bitMap = {}
           /\ last.ptr.blk = list[2] /\ A.cache = list[2]
           /\ heap[list[3]].bitMap # {}

\* C20: when allocate() creates a block, that block becomes the head with the
\* previous head as its successor, it becomes the cache, total_count grows by
\* one, reserved_count does not change, and the unit returned is unit 0 of the
\* new block.
C20_NewBlockAtHead ==
    [][\A a \in DOMAIN alloc :
          LET created == LiveBlocks(heap', a) \ LiveBlocks(heap, a)
          IN  (last'.op = "allocate" /\ last'.al = a /\ created # {}) =>
                  \E n \in created :
                      /\ created = {n}
                      /\ status' = "running"
                      /\ alloc'[a].head = n
                      /\ heap'[n].prev = NULL
                      /\ heap'[n].next = alloc[a].head
                      /\ heap'[alloc[a].head].prev = n
                      /\ BlockList(heap', n) = <<n>> \o BlockList(heap, alloc[a].head)
                      /\ alloc'[a].cache = n
                      /\ alloc'[a].total_count = alloc[a].total_count + 1
                      /\ alloc'[a].reserved_count = alloc[a].reserved_count
                      /\ last'.ptr = [blk |-> n, index |-> 0]
                      /\ heap'[n].bitMap = Slots \ {0}]_vars

\* an allocate() has returned unit 0 of the head block while every other
\* block is full and no block is in reserve
C20_Witness ==
    /\ last.op = "allocate" /\ status = "running"
    /\ LET A == alloc[last.al]
       IN  /\ last.ptr = [blk |-> A.head, index |-> 0]
           /\ A.cache = A.head
           /\ heap[A.head].next # NULL
           /\ heap[A.head].bitMap = Slots \ {0}
           /\ \A b \in LiveBlocks(heap, last.al) \ {A.head} : isFull(heap[b].bitMap)
           /\ A.total_count = 2 /\ A.reserved_count = 0

\* the number of next steps from the head to the first block with a free unit
StepsToRoom(h, list) ==
    (CHOOSE i \in DOMAIN list :
        /\ h[list[i]].bitMap # {}
        /\ \A j \in 1..(i - 1) : h[list[j]].bitMap = {}) - 1

Without(list, b) == SelectSeq(list, LAMBDA x : x # b)

\* C21: when allocate() finds the cache full and its scan finds a block with
\* room k steps from the head, then with k > traverse_threshold that block is
\* unlinked and becomes the head while the other blocks keep their order, with
\* k <= traverse_threshold the list order does not change; either way the
\* found block becomes the cache and no block is created or destroyed.
C21_MoveToFront ==
    [][(last'.op = "allocate" /\ status' = "running" /\ last'.ptr # NullPtr) =>
          LET a == last'.al
              A == alloc[a]
              list == BlockList(heap, A.head)
              room == HasRoom(heap, list)
          IN  (heap[A.cache].bitMap = {} /\ room # <<>>) =>
                  LET k == StepsToRoom(heap, list)
                      found == list[k + 1]
                  IN  /\ BlockList(heap', alloc'[a].head) =
                             IF k > traverse_threshold
                             THEN <<found>> \o Without(list, found)
                             ELSE list
                      /\ alloc'[a].head = (IF k > traverse_threshold THEN found ELSE A.head)
                      /\ heap'[alloc'[a].head].prev = NULL
                      /\ alloc'[a].cache = found
                      /\ LiveBlocks(heap', a) = LiveBlocks(heap, a)
                      /\ alloc'[a].total_count = A.total_count]_vars

\* an allocate() has served a unit from a block found more than
\* traverse_threshold steps from the head, and that block is now the head and
\* the cache of a list of at least six blocks
C21_Witness ==
    /\ last.op = "allocate" /\ status = "running" /\ last.ptr # NullPtr
    /\ LET A == alloc[last.al]
           list == BlockList(heap, A.head)
       IN  /\ Len(list) > traverse_threshold + 1
           /\ A.head = last.ptr.blk /\ A.cache = last.ptr.blk
           /\ heap[A.head].bitMap # Slots \ {0}
           /\ \A i \in 2..(traverse_threshold + 1) : heap[list[i]].bitMap = {}

\* C22: the unit allocate() returns is the free unit of its block with the
\* lowest index; exactly that bit of the block's bitMap goes from 1 to 0, and
\* no other bit of that block or of any other block changes.
C22_LowestFreeUnit ==
    [][(last'.op = "allocate" /\ status' = "running" /\ last'.ptr # NullPtr) =>
          LET p == last'.ptr
              a == last'.al
              before == IF heap[p.blk].live THEN heap[p.blk].bitMap ELSE EmptyMap
          IN  /\ p.index \in before
              /\ \A i \in before : p.index <= i
              /\ heap'[p.blk].bitMap = before \ {p.index}
              /\ \A b \in LiveBlocks(heap, a) \ {p.blk} :
                    heap'[b].live /\ heap'[b].bitMap = heap[b].bitMap]_vars

\* an allocate() has returned a unit below the free units its block still has,
\* while another block of the allocator is partly used
C22_Witness ==
    /\ last.op = "allocate" /\ status = "running" /\ last.ptr # NullPtr
    /\ LET p == last.ptr
       IN  /\ heap[p.blk].bitMap # {}
           /\ \A i \in heap[p.blk].bitMap : p.index < i
           /\ \E b \in LiveBlocks(heap, last.al) \ {p.blk} :
                 ~isFull(heap[b].bitMap) /\ ~isEmpty(heap[b].bitMap)

\* C23: a deallocate() that returns destroys at most one block, and only the
\* block its own unit has just made empty, exactly when reserved_count after
\* the increment exceeds reserved_limit; then total_count drops by one and
\* reserved_count ends where it was before the call, the cache becomes the new
\* head if the destroyed block was the cache and is unchanged otherwise, and
\* every other block keeps its bitMap and its place relative to the others.
C23_DeallocateEvictsOwnBlockOnly ==
    [][(last'.op = "deallocate" /\ status' = "running" /\ last'.diag = "") =>
          LET p == last'.ptr
              a == last'.al
              A == alloc[a]
              B == alloc'[a]
              list == BlockList(heap, A.head)
              destroyed == LiveBlocks(heap, a) \ LiveBlocks(heap', a)
              madeEmpty == heap[p.blk].bitMap \cup {p.index} = EmptyMap
              after == A.reserved_count + 1
          IN  /\ destroyed \subseteq {p.blk}
              /\ LiveBlocks(heap', a) \subseteq LiveBlocks(heap, a)
              /\ destroyed # {} <=> (madeEmpty /\ UGt(after, A.reserved_limit))
              /\ \A b \in LiveBlocks(heap, a) \ {p.blk} : heap'[b].bitMap = heap[b].bitMap
              /\ IF destroyed # {}
                 THEN /\ B.total_count = A.total_count - 1
                      /\ B.reserved_count = after - 1
                      /\ BlockList(heap', B.head) = Without(list, p.blk)
                      /\ B.cache = (IF A.cache = p.blk THEN B.head ELSE A.cache)
                 ELSE /\ B.total_count = A.total_count
                      /\ B.reserved_count = (IF madeEmpty THEN after ELSE A.reserved_count)
                      /\ BlockList(heap', B.head) = list
                      /\ B.cache = A.cache
                      /\ heap'[p.blk].bitMap = heap[p.blk].bitMap \cup {p.index}]_vars

\* a deallocate() has destroyed the block it emptied, two blocks remain, and
\* the cache is still the block after the head
C23_Witness ==
    /\ last.op = "deallocate" /\ status = "running" /\ last.diag = ""
    /\ ~heap[last.ptr.blk].live
    /\ LET A == alloc[last.al]
       IN  /\ A.total_count = 2
           /\ Len(BlockList(heap, A.head)) = 2
           /\ A.cache # A.head

\* the blocks of list, in order, that have at least count free units
WithRoomFor(h, list, count) == SelectSeq(list, LAMBDA b : popcnt64(h[b].bitMap) >= count)

\* C24: in every state reached, prepare_bulk(n) with n no more than the units
\* of a block sets cache to the first block in list order that has at least n
\* free units and changes nothing else; only when no block has that many does
\* it create a block (inserted at the head, made the cache, total_count + 1),
\* or return false unchanged when the raw memory source fails; with n above
\* the units of a block it returns false and changes nothing.
C24_PrepareBulkPicksFirstFit ==
    status = "running" =>
        \A a \in DOMAIN alloc : \A n \in 0..(UnitsPerBlock + 1) : \A mem \in MallocResults(heap) :
            LET A == alloc[a]
                R == prepare_bulk(A, heap, a, n, mem)
                list == BlockList(heap, A.head)
                fits == WithRoomFor(heap, list, n)
            IN  IF n > UnitsPerBlock \/ (fits = <<>> /\ mem = NULL)
                THEN R.ret = FALSE /\ R.alloc = A /\ R.heap = heap
                ELSE IF fits # <<>>
                THEN R.ret = TRUE /\ R.alloc = [A EXCEPT !.cache = fits[1]] /\ R.heap = heap
                ELSE /\ R.ret = TRUE
                     /\ R.alloc = [A EXCEPT !.head = mem, !.cache = mem, !.total_count = @ + 1]
                     /\ LiveBlocks(R.heap, a) = LiveBlocks(heap, a) \cup {mem}
                     /\ BlockList(R.heap, mem) = <<mem>> \o list
                     /\ \A b \in LiveBlocks(heap, a) : R.heap[b].bitMap = heap[b].bitMap

\* a prepare_bulk() has passed over the head for lack of room and made the
\* block after it the cache
C24_Witness ==
    /\ last.op = "prepare_bulk" /\ status = "running" /\ last.ret = TRUE
    /\ LET A == alloc[last.al]
           list == BlockList(heap, A.head)
       IN  /\ Len(list) = 2
           /\ A.cache = list[2]
           /\ popcnt64(heap[list[1]].bitMap) < popcnt64(heap[list[2]].bitMap)

\* the address the claim gives the payload of slot i of the block at base
PayloadAddress(base, unit_stride, i) == base + baseOffset + i * unit_stride + sizeofSlabUnit

\* the live blocks and slots of allocator a
LiveSlots(h, a) == LiveBlocks(h, a) \X Slots

\* C25: for every live block b and slot i, the unit recovered from the payload
\* address base(b) + header_size + i * unit_stride + sizeof(unit header) has
\* index i and leads back to b; the payload regions of distinct slots and
\* blocks do not overlap; and no operation changes the index and offset
\* fields of a block that stays live.
C25_PointerRecovery ==
    /\ [](status = "running" =>
            \A a \in DOMAIN alloc :
                LET stride == alloc[a].unitMetaSize
                    base(b) == AddressOf(b, BlockBytes(stride))
                    size == stride - sizeofSlabUnit
                IN  /\ \A s \in LiveSlots(heap, a) :
                          LET unit == getUnitFromPayload(PayloadAddress(base(s[1]), stride, s[2]))
                              headers == HeadersAt(heap, stride, unit)
                          IN  /\ headers # {}
                              /\ \A u \in headers :
                                    /\ u.index = s[2]
                                    /\ getBlockFromUnit(unit, u.offset) = base(s[1])
                              /\ UnitsNamedBy(alloc[a], heap, PayloadAddress(base(s[1]), stride, s[2]))
                                     = {[blk |-> s[1], index |-> s[2]]}
                    /\ \A s, t \in LiveSlots(heap, a) :
                          s # t =>
                             \/ PayloadAddress(base(s[1]), stride, s[2]) + size
                                    <= PayloadAddress(base(t[1]), stride, t[2])
                             \/ PayloadAddress(base(t[1]), stride, t[2]) + size
                                    <= PayloadAddress(base(s[1]), stride, s[2]))
    /\ [][\A b \in DOMAIN heap :
             (heap[b].live /\ heap'[b].live) => heap'[b].units = heap[b].units]_vars

\* a deallocate() has given back, through its address, the last slot of a block
\* that is not at the lowest address, for a unit size that is not a multiple
\* of eight
C25_Witness ==
    /\ last.op = "deallocate" /\ status = "running" /\ last.diag = ""
    /\ LET A == alloc[last.al]
       IN  /\ A.unitMetaSize = sizeofSlabUnit + 16
           /\ \E b \in LiveBlocks(heap, last.al) :
                 /\ b > 1
                 /\ last.ptr = PayloadAddress(AddressOf(b, BlockBytes(A.unitMetaSize)),
                                              A.unitMetaSize, UnitsPerBlock - 1)
                 /\ UnitsPerBlock - 1 \in heap[b].bitMap
                 /\ 0 \notin heap[b].bitMap

\* passes of the while loop of allocate(): none when the cache serves
allocatePasses(A, h) ==
    IF ~isFull(h[A.cache].bitMap) THEN 0 ELSE ScanNotFull(h, A.head, 0).traverseCount + 1

\* passes of the while loop of prepare_bulk(count) from slab
RECURSIVE prepareBulkPasses(_, _, _, _)
prepareBulkPasses(h, slab, count, fuel) ==
    IF slab = NULL \/ popcnt64(h[slab].bitMap) >= count THEN 0
    ELSE IF fuel = 0 \/ h[slab].next = NULL THEN 1
    ELSE 1 + prepareBulkPasses(h, h[slab].next, count, fuel - 1)

\* passes of the while loop of reclaim(): one for each block after the head
reclaimPasses(A, h) == Len(ListFrom(h, h[A.head].next, Cardinality(DOMAIN h) + 1))

\* C26: in every state an operation can be called in, the next chain from head
\* ends at null after passing each live block of the allocator once and
\* nothing else, so the loops of allocate, prepare_bulk and reclaim end, each
\* after no more passes than there are live blocks (deallocate has no loop).
C26_TraversalsBounded ==
    status = "running" =>
        \A a \in DOMAIN alloc :
            LET A == alloc[a]
                live == LiveBlocks(heap, a)
                list == BlockList(heap, A.head)
                fuel == Cardinality(DOMAIN heap) + 1
            IN  /\ Len(list) <= Cardinality(live)
                /\ Range(list) = live
                /\ Cardinality(Range(list)) = Len(list)
                /\ allocatePasses(A, heap) <= Cardinality(live)
                /\ \A count \in 0..UnitsPerBlock :
                      prepareBulkPasses(heap, A.head, count, fuel) <= Cardinality(live)
                /\ reclaimPasses(A, heap) < Cardinality(live)

\* a reclaim() has walked the blocks after the head and destroyed one, and the
\* chain it leaves ends at the head
C26_Witness ==
    /\ last.op = "reclaim" /\ status = "running" /\ last.ret >= 1
    /\ LET A == alloc[last.al]
       IN  /\ heap[A.head].next = NULL
           /\ reclaimPasses(A, heap) = 0
           /\ LiveBlocks(heap, last.al) = {A.head}

C29_AlwaysOwnsABlock ==
    /\ status # "crashed"
    /\ status = "running" =>
          \A a \in DOMAIN alloc :
              /\ alloc[a].head # NULL
              /\ alloc[a].total_count >= 1
              /\ LiveBlocks(heap, a) # {}

\* C30: in every state between calls, p = allocate() that returns a unit,
\* then deallocate(p), then q = allocate() gives q = p, and total() after
\* the third call is what it was after the first.
C30_LastFreedIsReused ==
    status = "running" =>
        \A a \in DOMAIN alloc : \A mem \in MallocResults(heap) :
            LET R == allocate(alloc[a], heap, a, mem, ndebug)
                S == deallocate(R.alloc, R.heap, a, R.ret, ndebug)
            IN  (R.status = "running" /\ R.ret # NullPtr) =>
                    /\ S.status = "running"
                    /\ \A mem2 \in MallocResults(S.heap) :
                          LET T == allocate(S.alloc, S.heap, a, mem2, ndebug)
                          IN  /\ T.status = "running"
                              /\ T.ret = R.ret
                              /\ T.alloc.total_count = R.alloc.total_count

\* the blocks of the work list and of the full list of a two-list allocator
WorkList(h, A) == Ring(h, A.work)

FullList(h, A) == Ring(h, A.full)

\* list is a circular doubly linked list without repetition
RingWellFormed(h, list) ==
    /\ \A i, j \in DOMAIN list : list[i] = list[j] => i = j
    /\ \A i \in DOMAIN list :
          /\ h[list[i]].next = list[(i % Len(list)) + 1]
          /\ h[h[list[i]].next].prev = list[i]
          /\ h[h[list[i]].prev].next = list[i]

\* C31: in the two-list variant, after every allocate() and deallocate(), every
\* live block is in exactly one of the two circular lists, every block of the
\* full list is full and every block of the work list is not, both lists are
\* well-formed circular doubly linked lists, and an allocate() that returns a
\* unit serves it from the block at the head of the work list (the block it
\* creates as that head when the work list is empty).
C31_TwoListPartition ==
    /\ [](status = "running" =>
            \A a \in DOMAIN alloc :
                LET work == WorkList(heap, alloc[a])
                    full == FullList(heap, alloc[a])
                IN  /\ Range(work) \cup Range(full) = LiveBlocks(heap, a)
                    /\ Range(work) \cap Range(full) = {}
                    /\ \A b \in Range(full) : isFull(heap[b].bitMap)
                    /\ \A b \in Range(work) : ~isFull(heap[b].bitMap)
                    /\ RingWellFormed(heap, work)
                    /\ RingWellFormed(heap, full))
    /\ [][(last'.op = "allocate" /\ status' = "running") =>
             LET a == last'.al
                 created == LiveBlocks(heap', a) \ LiveBlocks(heap, a)
             IN  /\ last'.ptr # NullPtr
                 /\ IF alloc[a].work # NULL
                    THEN last'.ptr.blk = alloc[a].work /\ created = {}
                    ELSE created = {last'.ptr.blk} /\ alloc'[a].work = last'.ptr.blk]_vars

\* a deallocate() has taken a block from the full list to the head of a work
\* list of two blocks, and another block is still on the full list
C31_Witness ==
    /\ last.op = "deallocate" /\ status = "running" /\ last.diag = ""
    /\ LET A == alloc[last.al]
       IN  /\ A.work = last.ptr.blk
           /\ Len(WorkList(heap, A)) = 2
           /\ Len(FullList(heap, A)) = 1
           /\ popcnt64(heap[A.work].bitMap) = 1

\* C32: in the two-list variant, after every allocate() and deallocate(),
\* total_count is the number of blocks of the work list plus the number of
\* the full list, reserved_count is the number of empty blocks of the work
\* list and is no more than reserved_limit, and no counter assertion of
\* allocate or removeFromWorkAndDestroy has failed.
C32_TwoListCounters ==
    /\ status # "aborted"
    /\ status = "running" =>
          \A a \in DOMAIN alloc :
              LET A == alloc[a]
                  work == WorkList(heap, A)
              IN  /\ A.total_count = Len(work) + Len(FullList(heap, A))
                  /\ A.reserved_count = Cardinality({b \in Range(work) : isEmpty(heap[b].bitMap)})
                  /\ A.reserved_count <= A.reserved_limit

\* a deallocate() has emptied a block beyond the limit and destroyed it, and a
\* block is left on each list
C32_Witness ==
    /\ last.op = "deallocate" /\ status = "running" /\ last.diag = ""
    /\ ~heap[last.ptr.blk].live
    /\ LET A == alloc[last.al]
       IN  /\ A.reserved_count = A.reserved_limit
           /\ A.total_count = 2
           /\ Len(FullList(heap, A)) = 1

=============================================================================
